---- MODULE Spec2Model ----
(***************************************************************************)
(* State-machine model of src/counter_script.py: the event counter logger  *)
(* for the Rigol DHO924 (ScopeConnection, read_counter_value, main).       *)
(*                                                                         *)
(* Time is counted in whole seconds (ticks).  Counter values are the       *)
(* device's event counts, modelled as naturals (the code parses them with  *)
(* float() and writes them with int(); on whole counts int() changes       *)
(* nothing).  KeyboardInterrupt is asynchronous: it is an action enabled   *)
(* at every program position.  A position stands for a group of            *)
(* statements: statements are grouped where a KeyboardInterrupt between    *)
(* them leaves the handler (lines 188-215) the same values to read as one  *)
(* before or after the group.  `buffer` is what the file object holds in   *)
(* memory, `durable` what has reached the file and stays if the process    *)
(* stops.                                                                  *)
(* `late` holds the queries whose recv gave up while the device's reply    *)
(* was still to come.  Spec is main(); SpecSampler is read_counter_value   *)
(* called on its own on a connection in any state.                         *)
(***************************************************************************)
EXTENDS Integers, Sequences, FiniteSets, TLC

(* ------------------------------ bounds -------------------------------- *)
MaxCount == 2        \* largest counter value the device reports
MaxTime == 3         \* the clock stops advancing here
MaxInterval == 2     \* largest --interval given on the command line
MaxSignals == 2      \* how many times Ctrl+C is pressed at most
MaxLate == 1         \* replies that can be outstanding after recv gave up
MaxCalls == 2        \* calls of read_counter_value made one after another
                     \* when it is exercised on its own

(* ------------------------- program constants -------------------------- *)
timeout == 3         \* ScopeConnection.__init__(timeout=3)
SAMPLE_RATE == 1     \* --sample default 1.0

\* Python's None where a counter value is expected; counter values are >= 0
None == -1
Header == "Interval,Start Time,End Time,Events,Rate (events/s),Cumulative Events"

Values == 0..MaxCount

\* What the socket hands back to recv(4096).decode().strip(): a text whose
\* first comma-delimited token is a number (kind "num"), the same with an
\* error marker further on in the text (kind "numerr"), an empty text, a
\* text holding an error marker, or a text whose first token is not a number.
Responses ==
    [kind : {"num", "numerr"}, val : Values]
        \cup [kind : {"empty", "error", "junk"}, val : {0}]

\* scope.query returned None (lines 46-50)
NoResponse == [kind |-> "none", val |-> 0]

VARIABLES
    pc,                       \* position of main()
    now,                      \* time.time() / datetime.now(), in ticks
    signals,                  \* Ctrl+C presses so far
    INTERVAL_SECONDS,         \* args.interval
    sock,                     \* ScopeConnection.sock: "none" | "open" | "closed"
    late,                     \* the queries ("idn" | "ctr") whose recv timed
                              \* out and whose reply is still to come in on
                              \* the socket, oldest first
    initial_counter,
    counter,
    final_counter,
    last_counter,
    interval_start_counter,
    cumulative_events,
    interval_count,
    interval_start_time,
    interval_start_timestamp,
    elapsed,
    interval_events,
    final_events,
    csvfile,                  \* "unopened" | "open" | "closed" | "error"
    buffer,                   \* rows written but not yet flushed
    durable,                  \* rows that reached the file
    last_read,                \* history: the last successful reading
    increasing,               \* history: every successful reading so far was
                              \* greater than the one before it
    nondecreasing,            \* history: no successful reading so far was
                              \* below the one before it
    appended,                 \* history: every row handed to writerow, in
                              \* order, with the place that wrote it and the
                              \* counter value it was written at
    stale,                    \* history: some successful reading was the
                              \* reply to an earlier query
    calls                     \* history, read_counter_value on its own: the
                              \* socket each call found, what it got from it,
                              \* how long it took and what it returned

aggVars == <<last_counter, interval_start_counter, cumulative_events,
             interval_count, interval_start_time, interval_start_timestamp>>
localVars == <<initial_counter, counter, final_counter, elapsed,
               interval_events, final_events>>
fileVars == <<csvfile, buffer, durable>>
envVars == <<now, signals, INTERVAL_SECONDS>>
histVars == <<last_read, increasing, nondecreasing, stale, appended, calls>>

vars == <<pc, sock, late, histVars, aggVars, localVars, fileVars, envVars>>

(* --------------------------- pure functions --------------------------- *)

\* ParseCounter without the test for the error marker of line 60
ParseCounterIgnoringMarker(res) ==
    IF res = NoResponse THEN None
    ELSE IF res.kind \in {"num", "numerr"} THEN res.val
    ELSE None

\* read_counter_value, lines 60-65, applied to what scope.query returned:
\* None (timeout or socket error), or the stripped response text.
ParseCounter(res) ==
    IF res = NoResponse THEN None
    ELSE IF res.kind = "empty" THEN None          \* `result and result != ''`
    ELSE IF res.kind \in {"error", "numerr"} THEN None
                                                  \* 'ERROR' in result.upper()
    ELSE IF res.kind = "num" THEN res.val         \* float(result.split(',')[0])
    ELSE None                                     \* float() raised; bare except

\* EventsDelta without the reset substitution of lines 137-139
EventsDeltaSigned(c, last) ==
    c - last

\* EventsDelta counting the size of the drop on a reset
EventsDeltaDrop(c, last) ==
    IF c - last < 0 THEN last - c ELSE c - last

\* lines 136-139: events since the last reading, with the reset substitution
EventsDelta(c, last) ==
    IF c - last < 0 THEN c ELSE c - last

\* IntervalEvents without the reset substitution of lines 150-151
IntervalEventsSigned(c, start) ==
    c - start

\* lines 149-151: events of the closing window
IntervalEvents(c, start) ==
    IF c - start < 0 THEN c ELSE c - start

\* lines 157/199 and the f"{rate:.3f}" of lines 165/205, in thousandths.
\* events / elapsed rounded to three decimals; with elapsed below 16 ticks no
\* quotient lies half way between two thousandths, so rounding the exact
\* quotient and rounding the float agree.
Rate(events, el) ==
    IF el > 0 THEN (2000 * events + el) \div (2 * el) ELSE 0

\* the list handed to csv_writer.writerow, lines 160-167 and 200-207
Row(idx, start, end, events, rate, cumulative) ==
    [index |-> idx, start |-> start, end |-> end, events |-> events,
     rate |-> rate, cumulative |-> cumulative]

\* a log left in the output path by an earlier run
OldLog == <<Header, Row(1, 0, 1, 1, 1000, 1)>>

(* ------------------------------ positions ----------------------------- *)
StartPcs == {"connect", "idn", "seed", "open"}
WithPcs == {"init"}           \* inside `with`, before `try`
LoopPcs == {"read", "accum", "check", "close", "write", "flush",
            "reset_time", "reset_counter", "sleep"}
HandlerPcs == {"final_read", "final_calc", "final_write",
               "final_flush", "report"}
EndPcs == {"done", "early_exit", "aborted", "failed"}

(* ------------------------------- Init --------------------------------- *)
Init ==
    /\ pc = "connect"
    /\ now = 0
    /\ signals = 0
    /\ INTERVAL_SECONDS \in 1..MaxInterval
    /\ sock = "none"
    /\ late = <<>>
    /\ initial_counter = None
    /\ counter = None
    /\ final_counter = None
    /\ last_counter = None
    /\ interval_start_counter = None
    /\ cumulative_events = 0
    /\ interval_count = 0
    /\ interval_start_time = 0
    /\ interval_start_timestamp = 0
    /\ elapsed = 0
    /\ interval_events = 0
    /\ final_events = 0
    /\ csvfile = "unopened"
    /\ buffer = <<>>
    /\ durable \in {<<>>, OldLog}
    /\ last_read = None
    /\ increasing = TRUE
    /\ nondecreasing = TRUE
    /\ stale = FALSE
    /\ appended = <<>>
    /\ calls = <<>>

(* ------------------------- ScopeConnection ---------------------------- *)

\* what a reply that comes in late can be: the answer to *IDN? is the
\* identification text, whose first token is no number; the answer to the
\* counter query is any response
LateResponses(cmd) ==
    IF cmd = "idn" THEN {[kind |-> "junk", val |-> 0]} ELSE Responses

\* ScopeConnection.query, lines 40-50: one send and one bounded recv, on a
\* socket that is never drained and whose replies carry no mark of the query
\* they answer.  Holds when the query `cmd` started at time t can return
\* `res` at time t2:
\*   - no earlier reply is outstanding and the reply arrives at once;
\*   - sendall or recv raises (always so on a socket that is not open) and
\*     the except clauses return None at once;
\*   - recv times out after `timeout` seconds and None is returned; the
\*     device's reply is lost, or it is still to come and will be the first
\*     thing a later recv finds;
\*   - an earlier reply is outstanding: recv returns it as the answer to this
\*     query, and this query's own reply is lost or outstanding in turn.
\* The program reads the clock for the first time at line 126: the model's
\* clock starts there, and the time the start-up queries take is not counted.
Query(cmd, res, t, t2) ==
    \/ /\ res \in Responses
       /\ sock = "open"
       /\ late = <<>>
       /\ t2 = t
       /\ UNCHANGED late
    \/ /\ res = NoResponse
       /\ t2 = t
       /\ UNCHANGED late
    \/ /\ res = NoResponse
       /\ sock = "open"
       /\ IF pc \in StartPcs
          THEN t2 = t
          ELSE t + timeout <= MaxTime /\ t2 = t + timeout
       /\ \/ UNCHANGED late
          \/ Len(late) < MaxLate /\ late' = Append(late, cmd)
    \/ /\ late # <<>>
       /\ sock = "open"
       /\ res \in LateResponses(Head(late))
       /\ t2 = t
       /\ \/ late' = Tail(late)
          \/ late' = Append(Tail(late), cmd)

\* read_counter_value, lines 57-65: the query, then the parse of its result;
\* holds when the call made at time t can return v at time t2
ReadCounterValue(v, t, t2) ==
    \E res \in Responses \cup {NoResponse} :
        Query("ctr", res, t, t2) /\ v = ParseCounter(res)

\* the history of successful readings, extended by the reading v
Observed(v) ==
    /\ UNCHANGED <<appended, calls>>
    /\ IF v = None
       THEN UNCHANGED <<last_read, increasing, nondecreasing, stale>>
       ELSE /\ last_read' = v
            /\ stale' = (stale \/ late # <<>>)
            /\ increasing' = (increasing /\ (last_read = None \/ v > last_read))
            /\ nondecreasing' =
                   (nondecreasing /\ (last_read = None \/ v >= last_read))

\* lines 96-100
Connect ==
    /\ pc = "connect"
    /\ \/ sock' = "open" /\ pc' = "idn"
       \/ sock' = "none" /\ pc' = "early_exit"
    /\ UNCHANGED <<late, histVars, aggVars, localVars, fileVars, envVars>>

\* lines 102-104: the answer is only printed
Idn ==
    /\ pc = "idn"
    /\ \E res \in Responses \cup {NoResponse} : Query("idn", res, now, now')
    /\ pc' = "seed"
    /\ UNCHANGED <<sock, histVars, aggVars, localVars, fileVars, signals,
                   INTERVAL_SECONDS>>

\* SeedParsed without the check of line 108
SeedParsedUnchecked(v) ==
    /\ initial_counter' = v
    /\ pc' = "open"
    /\ Observed(v)
    /\ UNCHANGED <<sock, aggVars, counter, final_counter, elapsed,
                   interval_events, final_events, fileVars>>

\* lines 107-111, with `v` what read_counter_value returned
SeedParsed(v) ==
    /\ initial_counter' = v
    /\ IF v = None
       THEN /\ sock' = "closed"
            /\ pc' = "early_exit"
       ELSE /\ pc' = "open"
            /\ UNCHANGED sock
    /\ Observed(v)
    /\ UNCHANGED <<aggVars, counter, final_counter, elapsed,
                   interval_events, final_events, fileVars>>

SeedRead ==
    /\ pc = "seed"
    /\ \E v \in Values \cup {None} :
          ReadCounterValue(v, now, now') /\ SeedParsed(v)
    /\ UNCHANGED <<signals, INTERVAL_SECONDS>>

\* lines 117-119: open(OUTPUT_FILE, 'w') truncates; the header goes to the
\* file object's buffer
Open ==
    /\ pc = "open"
    /\ csvfile' = "open"
    /\ durable' = <<>>
    /\ buffer' = <<Header>>
    /\ pc' = "init"
    /\ UNCHANGED <<sock, late, histVars, aggVars, localVars, envVars>>

\* lines 121-127
InitState ==
    /\ pc = "init"
    /\ last_counter' = initial_counter
    /\ interval_start_counter' = initial_counter
    /\ cumulative_events' = 0
    /\ interval_count' = 0
    /\ interval_start_time' = now
    /\ interval_start_timestamp' = now
    /\ pc' = "read"
    /\ UNCHANGED <<sock, late, histVars, localVars, fileVars, envVars>>

(* --------------------------- sampling loop ---------------------------- *)

\* line 132, with `v` what read_counter_value returned
Parsed(v) ==
    /\ counter' = v
    /\ Observed(v)
    /\ pc' = "accum"
    /\ UNCHANGED <<sock, aggVars, initial_counter, final_counter,
                   elapsed, interval_events, final_events, fileVars>>

Read ==
    /\ pc = "read"
    /\ \E v \in Values \cup {None} :
          ReadCounterValue(v, now, now') /\ Parsed(v)
    /\ UNCHANGED <<signals, INTERVAL_SECONDS>>

\* Accumulate taking a failed read for a reading of 0
AccumulateZeroOnFailure ==
    /\ pc = "accum"
    /\ LET c == IF counter = None THEN 0 ELSE counter IN
         /\ cumulative_events' = cumulative_events + EventsDelta(c, last_counter)
         /\ last_counter' = c
    /\ pc' = IF counter # None THEN "check" ELSE "sleep"
    /\ UNCHANGED <<sock, late, histVars, interval_start_counter,
                   interval_count, interval_start_time,
                   interval_start_timestamp, localVars, fileVars, envVars>>

\* Accumulate going on to the window check after a failed read as well
AccumulateAlwaysChecks ==
    /\ pc = "accum"
    /\ IF counter # None
       THEN /\ cumulative_events' =
                   cumulative_events + EventsDelta(counter, last_counter)
            /\ last_counter' = counter
       ELSE UNCHANGED <<cumulative_events, last_counter>>
    /\ pc' = "check"
    /\ UNCHANGED <<sock, late, histVars, interval_start_counter,
                   interval_count, interval_start_time,
                   interval_start_timestamp, localVars, fileVars, envVars>>

\* lines 134-142, and the else branch of lines 183-184
Accumulate ==
    /\ pc = "accum"
    /\ IF counter # None
       THEN /\ cumulative_events' =
                   cumulative_events + EventsDelta(counter, last_counter)
            /\ last_counter' = counter
            /\ pc' = "check"
       ELSE /\ UNCHANGED <<cumulative_events, last_counter>>
            /\ pc' = "sleep"
    /\ UNCHANGED <<sock, late, histVars, interval_start_counter,
                   interval_count, interval_start_time,
                   interval_start_timestamp, localVars, fileVars, envVars>>

\* a window that closes as soon as any time has passed
WindowElapsedAny(el, window) == el > 0

\* line 147: has the interval elapsed
WindowElapsed(el, window) == el >= window

\* lines 145-147
CheckElapsed ==
    /\ pc = "check"
    /\ elapsed' = now - interval_start_time
    /\ pc' = IF WindowElapsed(elapsed', INTERVAL_SECONDS) THEN "close" ELSE "sleep"
    /\ UNCHANGED <<sock, late, histVars, aggVars, initial_counter, counter,
                   final_counter, interval_events, final_events, fileVars,
                   envVars>>

\* line 153
NextIndex(n) == n + 1

\* lines 149-153
CloseWindow ==
    /\ pc = "close"
    /\ interval_events' = IntervalEvents(counter, interval_start_counter)
    /\ interval_count' = NextIndex(interval_count)
    /\ pc' = "write"
    /\ UNCHANGED <<sock, late, histVars, last_counter,
                   interval_start_counter, cumulative_events,
                   interval_start_time, interval_start_timestamp,
                   initial_counter, counter, final_counter, elapsed,
                   final_events, fileVars, envVars>>

\* csv_writer.writerow(row): the row goes to the file object's buffer
Written(row, by) ==
    /\ buffer' = Append(buffer, row)
    /\ appended' = Append(appended,
          [row |-> row, by |-> by,
           at |-> IF by = "loop" THEN counter ELSE final_counter])
    /\ UNCHANGED <<last_read, increasing, nondecreasing, stale, calls>>

\* lines 154-167
WriteRow ==
    /\ pc = "write"
    /\ Written(Row(interval_count, interval_start_timestamp, now,
                   interval_events, Rate(interval_events, elapsed),
                   cumulative_events), "loop")
    /\ pc' = "flush"
    /\ UNCHANGED <<sock, late, aggVars, localVars, csvfile,
                   durable, envVars>>

\* a flush that leaves the buffered rows where they are
FlushedNothing(file, buf) == file

\* csvfile.flush(): everything buffered reaches the file
Flushed(file, buf) == file \o buf

\* lines 168-171
Flush ==
    /\ pc = "flush"
    /\ durable' = Flushed(durable, buffer)
    /\ buffer' = <<>>
    /\ pc' = "reset_time"
    /\ UNCHANGED <<sock, late, histVars, aggVars, localVars, csvfile,
                   envVars>>

\* lines 174-175
ResetTime ==
    /\ pc = "reset_time"
    /\ interval_start_time' = now
    /\ interval_start_timestamp' = now
    /\ pc' = "reset_counter"
    /\ UNCHANGED <<sock, late, histVars, last_counter,
                   interval_start_counter, cumulative_events, interval_count,
                   localVars, fileVars, envVars>>

\* ResetCounter leaving interval_start_counter at the seed value
ResetCounterSkipped ==
    /\ pc = "reset_counter"
    /\ pc' = "sleep"
    /\ UNCHANGED <<sock, late, histVars, aggVars, localVars, fileVars, envVars>>

\* line 176
ResetCounter ==
    /\ pc = "reset_counter"
    /\ interval_start_counter' = counter
    /\ pc' = "sleep"
    /\ UNCHANGED <<sock, late, histVars, last_counter, cumulative_events,
                   interval_count, interval_start_time,
                   interval_start_timestamp, localVars, fileVars, envVars>>

\* lines 179-186: the status line, then time.sleep(SAMPLE_RATE)
Sleep ==
    /\ pc = "sleep"
    /\ now + SAMPLE_RATE <= MaxTime
    /\ now' = now + SAMPLE_RATE
    /\ pc' = "read"
    /\ UNCHANGED <<sock, late, histVars, aggVars, localVars, fileVars,
                   signals, INTERVAL_SECONDS>>

(* ------------------- except KeyboardInterrupt (188-215) ---------------- *)

\* line 193, with `v` what read_counter_value returned
FinalParsed(v) ==
    /\ final_counter' = v
    /\ Observed(v)
    /\ pc' = "final_calc"
    /\ UNCHANGED <<sock, aggVars, initial_counter, counter, elapsed,
                   interval_events, final_events, fileVars>>

FinalRead ==
    /\ pc = "final_read"
    /\ \E v \in Values \cup {None} :
          ReadCounterValue(v, now, now') /\ FinalParsed(v)
    /\ UNCHANGED <<signals, INTERVAL_SECONDS>>

\* line 195
FinalEvents(c, start) == c - start

\* lines 194-199
FinalCalc ==
    /\ pc = "final_calc"
    /\ IF final_counter # None
       THEN /\ final_events' = FinalEvents(final_counter, interval_start_counter)
            /\ IF final_events' > 0
               THEN /\ interval_count' = NextIndex(interval_count)
                    /\ elapsed' = now - interval_start_time
                    /\ pc' = "final_write"
               ELSE /\ UNCHANGED <<interval_count, elapsed>>
                    /\ pc' = "report"
       ELSE /\ UNCHANGED <<final_events, interval_count, elapsed>>
            /\ pc' = "report"
    /\ UNCHANGED <<sock, late, histVars, last_counter,
                   interval_start_counter, cumulative_events,
                   interval_start_time, interval_start_timestamp,
                   initial_counter, counter, final_counter, interval_events,
                   fileVars, envVars>>

\* lines 200-207
FinalWrite ==
    /\ pc = "final_write"
    /\ Written(Row(interval_count, interval_start_timestamp, now,
                   final_events, Rate(final_events, elapsed),
                   cumulative_events), "final")
    /\ pc' = "final_flush"
    /\ UNCHANGED <<sock, late, aggVars, localVars, csvfile,
                   durable, envVars>>

\* lines 208-209
FinalFlush ==
    /\ pc = "final_flush"
    /\ durable' = Flushed(durable, buffer)
    /\ buffer' = <<>>
    /\ pc' = "report"
    /\ UNCHANGED <<sock, late, histVars, aggVars, localVars, csvfile,
                   envVars>>

\* the end of the `with` block of line 117: the file is closed, which
\* flushes what is still buffered
CloseFile ==
    /\ csvfile' = "closed"
    /\ durable' = Flushed(durable, buffer)
    /\ buffer' = <<>>

\* lines 211-215: the totals are printed; then the `with` block ends
Report ==
    /\ pc = "report"
    /\ CloseFile
    /\ pc' = "scope_close"
    /\ UNCHANGED <<sock, late, histVars, aggVars, localVars, envVars>>

\* lines 217-218 and ScopeConnection.close, lines 52-55
ScopeClose ==
    /\ pc = "scope_close"
    /\ sock' = "closed"
    /\ pc' = "done"
    /\ UNCHANGED <<late, histVars, aggVars, localVars, fileVars, envVars>>

(* ------------------------ storage write failure ----------------------- *)

\* a write failure that is caught, the loop going on with the next tick
StorageFailureSwallowed ==
    /\ pc \in {"write", "flush", "final_write", "final_flush"}
    /\ csvfile' = "error"
    /\ buffer' = <<>>
    /\ UNCHANGED durable
    /\ pc' = IF pc \in LoopPcs THEN "sleep" ELSE "report"
    /\ UNCHANGED <<sock, late, histVars, aggVars, localVars, envVars>>

\* csv_writer.writerow or csvfile.flush raises OSError (lines 160-168 in the
\* loop, 200-208 in the handler).  `except KeyboardInterrupt` (line 188) does
\* not catch it and the handler has no try of its own: the exception leaves
\* the `with` block, which closes the file, and then main().  Of the rows
\* still in the buffer, the close either gets them to the file or loses them.
StorageFailure ==
    /\ pc \in {"write", "flush", "final_write", "final_flush"}
    /\ csvfile' = "error"
    /\ buffer' = <<>>
    /\ durable' \in {durable, Flushed(durable, buffer)}
    /\ pc' = "failed"
    /\ UNCHANGED <<sock, late, histVars, aggVars, localVars, envVars>>

(* --------------------------- KeyboardInterrupt ------------------------ *)

Signal ==
    /\ signals < MaxSignals
    /\ signals' = signals + 1
    /\ UNCHANGED <<now, INTERVAL_SECONDS>>

\* Ctrl+C inside the try block (lines 130-186): line 188 catches it and the
\* handler starts (lines 189-190)
InterruptLoop ==
    /\ pc \in LoopPcs
    /\ Signal
    /\ pc' = "final_read"
    /\ UNCHANGED <<sock, late, histVars, aggVars, localVars, fileVars>>

\* Ctrl+C while read_counter_value is inside its try (line 62), the response
\* having arrived: the bare except of line 63 catches KeyboardInterrupt too
\* and None is returned
InterruptParse ==
    /\ Signal
    /\ UNCHANGED late
    /\ \/ pc = "seed" /\ SeedParsed(None)
       \/ pc = "read" /\ Parsed(None)
       \/ pc = "final_read" /\ FinalParsed(None)

\* Ctrl+C inside the handler (lines 189-215) or between line 117 and the
\* try: nothing catches it; the `with` block closes the file on the way out
InterruptHandler ==
    /\ pc \in HandlerPcs \cup WithPcs
    /\ Signal
    /\ CloseFile
    /\ pc' = "aborted"
    /\ UNCHANGED <<sock, late, histVars, aggVars, localVars>>

\* Ctrl+C outside the `with` block: main() is left by the exception
InterruptOutside ==
    /\ pc \in StartPcs \cup {"scope_close"}
    /\ Signal
    /\ pc' = "aborted"
    /\ UNCHANGED <<sock, late, histVars, aggVars, localVars, fileVars>>

Next ==
    \/ Connect \/ Idn \/ SeedRead \/ Open \/ InitState
    \/ Read \/ Accumulate \/ CheckElapsed \/ CloseWindow
    \/ WriteRow \/ Flush \/ ResetTime \/ ResetCounter \/ Sleep
    \/ FinalRead \/ FinalCalc \/ FinalWrite \/ FinalFlush
    \/ Report \/ ScopeClose \/ StorageFailure
    \/ InterruptLoop \/ InterruptParse \/ InterruptHandler \/ InterruptOutside

Spec == Init /\ [][Next]_vars

(* ---------------------- main() without Ctrl+C ------------------------- *)

\* the steps of main() when no KeyboardInterrupt arrives: start-up and the
\* loop of lines 130-186, which only a write failure ends
NextUncancelled ==
    \/ Connect \/ Idn \/ SeedRead \/ Open \/ InitState
    \/ Read \/ Accumulate \/ CheckElapsed \/ CloseWindow
    \/ WriteRow \/ Flush \/ ResetTime \/ ResetCounter \/ Sleep
    \/ StorageFailure

\* main() is one sequential thread that is always scheduled: whenever it has
\* a next statement to run, it runs one
SpecUncancelled ==
    Init /\ [][NextUncancelled]_vars /\ WF_vars(NextUncancelled)

(* ------------------ read_counter_value on its own --------------------- *)

\* a ScopeConnection, connected or not, before any call of
\* read_counter_value; main() is not running
InitSampler ==
    /\ pc = "sample"
    /\ now = 0
    /\ signals = 0
    /\ INTERVAL_SECONDS = 1
    /\ sock \in {"none", "open"}
    /\ late = <<>>
    /\ initial_counter = None
    /\ counter = None
    /\ final_counter = None
    /\ last_counter = None
    /\ interval_start_counter = None
    /\ cumulative_events = 0
    /\ interval_count = 0
    /\ interval_start_time = 0
    /\ interval_start_timestamp = 0
    /\ elapsed = 0
    /\ interval_events = 0
    /\ final_events = 0
    /\ csvfile = "unopened"
    /\ buffer = <<>>
    /\ durable = <<>>
    /\ last_read = None
    /\ increasing = TRUE
    /\ nondecreasing = TRUE
    /\ stale = FALSE
    /\ appended = <<>>
    /\ calls = <<>>

\* one call of read_counter_value(scope), lines 57-65: the query, then the
\* parse of what it returned
Sample ==
    /\ pc = "sample"
    /\ Len(calls) < MaxCalls
    /\ \E res \in Responses \cup {NoResponse} :
          /\ Query("ctr", res, now, now')
          /\ calls' = Append(calls, [link |-> sock, res |-> res,
                                     took |-> now' - now,
                                     ret |-> ParseCounter(res)])
    /\ UNCHANGED <<pc, sock, last_read, increasing, nondecreasing, stale,
                   appended,
                   aggVars, localVars, fileVars, signals, INTERVAL_SECONDS>>

\* ScopeConnection.close, lines 52-55, between two calls
SamplerClose ==
    /\ pc = "sample"
    /\ sock = "open"
    /\ sock' = "closed"
    /\ UNCHANGED <<pc, late, histVars, aggVars, localVars, fileVars, envVars>>

NextSampler == Sample \/ SamplerClose

SpecSampler == InitSampler /\ [][NextSampler]_vars

(* ======================================================================= *)
(*                               Properties                                *)
(* ======================================================================= *)

\* the data rows of a file: everything after the header line
DataRows(f) == IF Len(f) <= 1 THEN <<>> ELSE SubSeq(f, 2, Len(f))

\* the rows handed to writerow so far, in order
AppendedRows == [i \in DOMAIN appended |-> appended[i].row]

RECURSIVE SumEvents(_)
SumEvents(rows) ==
    IF rows = <<>> THEN 0 ELSE rows[1].events + SumEvents(Tail(rows))

\* the rows written by the handler of lines 188-209
TrailingRows == {i \in DOMAIN appended : appended[i].by = "final"}
\* the rows written by the loop
MidRunRows == {i \in DOMAIN appended : appended[i].by = "loop"}

\* C1: at process exit, after cancellation and finalization, the events of
\* all rows in the file sum up to the final cumulative_events.
C1_SumOfEventsIsCumulative ==
    pc = "done" => SumEvents(DataRows(durable)) = cumulative_events

\* C2: cumulative_events never decreases from one state to the next, for any
\* sequence of non-negative readings, resets included.
C2_CumulativeNeverDecreases ==
    [][cumulative_events' >= cumulative_events]_vars

\* C2 witness: a reading below the seed has been accumulated
C2_Witness ==
    /\ pc = "check"
    /\ counter < initial_counter
    /\ last_counter = counter
    /\ cumulative_events > 0

\* C3: for strictly increasing readings (seed, loop readings and the reading
\* of the handler), the events of all rows written sum up to the last value
\* read minus the seed value.
C3_SumIsLastMinusSeed ==
    (pc = "done" /\ increasing /\ final_counter # None)
        => SumEvents(DataRows(durable)) = last_read - initial_counter

\* the partial window holds events: the counter stands above the value at
\* which the window started
WindowHoldsEvents ==
    /\ last_counter # None
    /\ IF final_counter # None
       THEN final_counter > interval_start_counter
       ELSE last_counter > interval_start_counter

\* C4: two cancellation signals, the second at any point after the first,
\* leave exactly one trailing row when the partial window holds events.
C4_TwoSignalsOneTrailingRow ==
    (pc \in {"done", "aborted"} /\ signals = 2 /\ WindowHoldsEvents)
        => Cardinality(TrailingRows) = 1

\* C5: when control leaves the handler, the trailing row has been appended
\* exactly once if the final reading stands above interval_start_counter, and
\* not at all otherwise.
C5_FinalizationAppendsOnce ==
    (pc \in {"scope_close", "done", "aborted"} /\ final_counter # None)
        => Cardinality(TrailingRows) =
               IF final_counter - interval_start_counter > 0 THEN 1 ELSE 0

\* s is an initial segment of t
IsPrefix(s, t) == Len(s) <= Len(t) /\ SubSeq(t, 1, Len(s)) = s

\* C6: when the flush that follows the N-th writerow returns, the file holds
\* the header and exactly the N rows appended so far, in order; and from then
\* on the file only grows, so that stopping the process at any later point
\* loses none of them.
C6_AppendIsDurable ==
    [][/\ (pc \in {"flush", "final_flush"} /\ pc' \in {"reset_time", "report"})
            => durable' = <<Header>> \o AppendedRows
       /\ csvfile = "open" => IsPrefix(durable, durable')]_vars

\* C6 witness: the second append has returned
C6_Witness ==
    /\ pc = "reset_time"
    /\ Len(appended) = 2
    /\ durable = <<Header>> \o AppendedRows

\* C7: a reading below last_counter adds exactly its own value to
\* cumulative_events, becomes last_counter, and the loop goes on.
C7_ResetAddsRawValue ==
    [][(pc = "accum" /\ pc' # "final_read"
            /\ counter # None /\ counter < last_counter)
        => /\ cumulative_events' = cumulative_events + counter
           /\ last_counter' = counter
           /\ pc' = "check"]_vars

\* C7 witness: after the seed 2 and a reading 2, the reading 1 was taken as
\* one event
C7_Witness ==
    /\ pc = "check"
    /\ initial_counter = 2
    /\ counter = 1
    /\ last_counter = 1
    /\ cumulative_events = 1
    /\ now >= 1

\* C8: the loop writes a row only on a successful reading taken at least
\* INTERVAL_SECONDS after the window started, so every mid-run row spans at
\* least INTERVAL_SECONDS and at most now \div INTERVAL_SECONDS of them
\* exist; a shorter window is written by the handler only.
C8_MidRunRowsSpanWindow ==
    /\ pc \in {"close", "write"}
          => /\ counter # None
             /\ elapsed = now - interval_start_time
             /\ elapsed >= INTERVAL_SECONDS
    /\ \A i \in DOMAIN appended :
          appended[i].row.end - appended[i].row.start < INTERVAL_SECONDS
              => appended[i].by = "final"
    /\ Cardinality(MidRunRows) * INTERVAL_SECONDS <= now

\* C8 witness: window 2, samples every second for 3 seconds: one row closed
\* mid-run at 2 s, the remaining second written by the handler only
C8_Witness ==
    /\ pc = "done"
    /\ INTERVAL_SECONDS = 2
    /\ Len(appended) = 2
    /\ appended[1].by = "loop"
    /\ appended[1].row.start = 0
    /\ appended[1].row.end = 2
    /\ appended[2].by = "final"
    /\ appended[2].row.start = 2
    /\ appended[2].row.end = 3

\* C9: rows are written in strictly increasing index order starting at 1,
\* and each row is flushed before the next sample is taken.
C9_IndexFromOneIncreasing ==
    /\ appended # <<>> => appended[1].row.index = 1
    /\ \A i, j \in DOMAIN appended :
          i < j => appended[i].row.index < appended[j].row.index
    /\ pc = "read" => \A i \in DOMAIN buffer : buffer[i] = Header

\* the responses that make a sample fail
FailureResponses ==
    {NoResponse} \cup [kind : {"empty", "error", "junk"}, val : {0}]

\* C10: a failed sample (timeout, empty response, error marker, first token
\* not a number) changes no aggregation state and writes no row, and the
\* loop goes to the next tick.
C10_FailedSampleChangesNothing ==
    [][/\ \A res \in FailureResponses : ParseCounter(res) = None
       /\ (pc = "read" /\ pc' = "accum" /\ counter' = None)
             => UNCHANGED <<aggVars, fileVars, appended>>
       /\ (pc = "accum" /\ pc' # "final_read" /\ counter = None)
             => /\ UNCHANGED <<aggVars, fileVars, appended>>
                /\ pc' = "sleep"]_vars

\* C10 witness: a sample failed after events had been counted
C10_Witness ==
    /\ pc = "sleep"
    /\ counter = None
    /\ cumulative_events > 0
    /\ last_counter > 0

\* C11: the events of every row written, by the loop or by the handler, are
\* never negative, whatever non-negative values the device reports, resets
\* included.
C11_EventsNeverNegative ==
    /\ \A i \in DOMAIN appended : appended[i].row.events >= 0
    /\ \A i \in DOMAIN DataRows(durable) : DataRows(durable)[i].events >= 0

\* C11 witness: a window was closed on a reading below the value at which
\* it started, and its row was written with the raw value
C11_Witness ==
    /\ pc = "flush"
    /\ counter < interval_start_counter
    /\ appended[Len(appended)].row.events = counter

\* C12: while no reading is below the one before it, a row that the loop
\* closes on the reading v has events = v minus the counter value at the
\* previous window reset (the seed for the first window) and
\* cumulative_events = v minus the seed; so the events of a mid-run row are
\* the growth of cumulative_events since the mid-run row before it.  Failed
\* reads in between change nothing of this.
C12_RowIsDifferenceOfReadings ==
    nondecreasing =>
        /\ pc \in {"flush", "reset_time", "reset_counter"} =>
              LET r == appended[Len(appended)].row IN
                /\ r.events = counter - interval_start_counter
                /\ r.cumulative = counter - initial_counter
        /\ pc = "sleep" /\ appended # <<>> /\ counter # None
                /\ interval_start_time = now =>
              interval_start_counter = counter
        /\ \A i \in MidRunRows :
              appended[i].row.events =
                  appended[i].row.cumulative -
                      (IF i = 1 THEN 0 ELSE appended[i - 1].row.cumulative)

\* C12 witness: the example of the claim at the scale of the model: seed 0,
\* window of 2 s, readings rising to 2 at t = 2: exactly one row, closed at
\* t = 2 with events 2 and cumulative_events 2
C12_Witness ==
    /\ pc = "sleep"
    /\ nondecreasing
    /\ INTERVAL_SECONDS = 2
    /\ initial_counter = 0
    /\ counter = 2
    /\ now = 2
    /\ Len(appended) = 1
    /\ appended[1].by = "loop"
    /\ appended[1].row = Row(1, 0, 2, 2, 1000, 2)

\* C13: the log is append-only and has its header once, on the first line:
\* no step (append, finalization, close, or opening the file again when the
\* path already holds the log of an earlier run) removes or alters a data
\* row that is in the file.
C13_LogIsAppendOnly ==
    [][/\ IsPrefix(DataRows(durable), DataRows(durable'))
       /\ durable' # <<>> => durable'[1] = Header]_vars

\* C14: a write failure during an append, in the loop or in the handler, is
\* fatal: the step on which the write fails ends the run, and from then on
\* no step is taken at all: no further sample, no further row.
C14_WriteFailureIsFatal ==
    [][/\ (csvfile # "error" /\ csvfile' = "error")
            => /\ pc' = "failed"
               /\ UNCHANGED <<aggVars, localVars, appended, last_read, now>>
       /\ pc # "failed"]_vars

\* C14 witness: the first row reached the file, the second append failed
C14_Witness ==
    /\ pc = "failed"
    /\ csvfile = "error"
    /\ Len(appended) = 2
    /\ appended[2].by = "loop"
    /\ Len(durable) = 2

\* C15: when the connection cannot be established or the first counter read
\* is invalid, the process exits early: it never gets past the seed read, so
\* the file is not opened, no aggregation state exists, no reading of the
\* loop is taken, no row is written, and nothing happens afterwards.
C15_EarlyExitCreatesNothing ==
    /\ (sock = "none" /\ pc # "connect") => pc \in {"early_exit", "aborted"}
    /\ (initial_counter = None /\ pc \notin {"connect", "idn", "seed"})
          => pc \in {"early_exit", "aborted"}
    /\ pc = "early_exit" =>
          /\ sock = "none" \/ initial_counter = None
          /\ csvfile = "unopened"
          /\ buffer = <<>>
          /\ durable \in {<<>>, OldLog}
          /\ appended = <<>>
          /\ last_counter = None
          /\ interval_start_counter = None
          /\ cumulative_events = 0
          /\ interval_count = 0
          /\ counter = None
          /\ ~ENABLED Next

\* C15 witness: the seed read failed on an open connection, with the log of
\* an earlier run in the output path
C15_Witness ==
    /\ pc = "early_exit"
    /\ sock = "closed"
    /\ initial_counter = None
    /\ durable = OldLog

\* C16: once Ctrl+C has been pressed during the sampling loop, sampling has
\* stopped (the loop takes no further step, so no window is closed mid-run
\* after the signal), and when the run has ended, the handler has run to
\* its end and both the connection and the file are closed.  The loop state
\* exists (last_counter is set) from line 121 on, so a signal counted then
\* was received in the loop or after it.
C16_SignalEndsRunCleanly ==
    (signals >= 1 /\ last_counter # None) =>
        /\ pc \notin LoopPcs
        /\ pc \in {"done", "aborted"} =>
              /\ pc = "done"
              /\ sock = "closed"
              /\ csvfile = "closed"

\* what the text of a response is like
NonEmpty(res) == res # NoResponse /\ res.kind # "empty"
HasErrorMarker(res) == res # NoResponse /\ res.kind \in {"error", "numerr"}
FirstTokenIsNumber(res) == res # NoResponse /\ res.kind \in {"num", "numerr"}

\* why a call failed, in the terms of the claim
FailureReason(call) ==
    IF call.res = NoResponse /\ call.took = timeout THEN "Timeout"
    ELSE IF call.res = NoResponse THEN "LinkError"
    ELSE IF call.res.kind = "empty" THEN "EmptyResponse"
    ELSE "ParseError"

C18_TrailingRowCountsOnce ==
    nondecreasing =>
        \A j \in TrailingRows :
            appended[j].row.events =
                appended[j].at -
                    (IF j = 1 THEN initial_counter ELSE appended[j - 1].at)

\* C19: at exit, wherever Ctrl+C arrived, the interval count that is
\* reported equals the number of data rows in the file, and the rows carry
\* the indices 1..N in order, without a gap.
C19_CountMatchesRows ==
    pc \in {"scope_close", "done"} =>
        /\ interval_count = Len(DataRows(durable))
        /\ \A i \in DOMAIN DataRows(durable) : DataRows(durable)[i].index = i

\* C20: every successful reading is the device's reply to the query that
\* returned it: a reply that comes in after its query timed out is never
\* taken as the answer to a later counter query.
C20_NoStaleReading ==
    ~stale

\* C21: without Ctrl+C, the window is looked at only after a successful
\* reading: a failed read writes no row however long the window has been
\* open; every mid-run row was written on a successful reading; a
\* successful reading taken when INTERVAL_SECONDS or more have elapsed
\* leads to the row being handed to writerow (or to the write failing)
\* before the next sample, so that after a sample that succeeded the open
\* window is always younger than INTERVAL_SECONDS.
C21_WindowClosesOnSuccessfulReading ==
    /\ [](pc \in {"check", "close", "write"} => counter # None)
    /\ [](\A i \in MidRunRows : appended[i].at # None)
    /\ []((pc = "sleep" /\ counter # None)
            => now - interval_start_time < INTERVAL_SECONDS)
    /\ [][(pc = "accum" /\ counter = None)
            => (pc' = "sleep" /\ UNCHANGED appended)]_vars
    /\ (pc = "accum" /\ counter # None
            /\ now - interval_start_time >= INTERVAL_SECONDS)
          ~> (pc = "flush" \/ pc = "failed")

\* C21 witness: the window has been open for INTERVAL_SECONDS or more, the
\* reads have failed since, and no row has been written
C21_Witness ==
    /\ pc = "sleep"
    /\ counter = None
    /\ signals = 0
    /\ now - interval_start_time > INTERVAL_SECONDS
    /\ appended = <<>>

\* C22: right after every mid-run close, cumulative_events equals the sum
\* of the events of all rows written so far, i.e. the events of each
\* mid-run row are what cumulative_events grew by during its window, also
\* when the counter was reset inside the window.
C22_RowEventsAreCumulativeGrowth ==
    pc = "flush" => SumEvents(AppendedRows) = cumulative_events

\* C23: the cumulative_events written in the trailing row includes that
\* row's own events: for readings that never go down it is the
\* cumulative_events of the row before plus the trailing row's events, or
\* just the trailing row's events when it is the only row.
C23_TrailingCumulativeIncludesOwnEvents ==
    nondecreasing =>
        \A j \in TrailingRows :
            appended[j].row.cumulative =
                (IF j = 1 THEN 0 ELSE appended[j - 1].row.cumulative)
                    + appended[j].row.events

====
